---- MODULE Spec2Model ----
(***************************************************************************)
(* Proximity pairing engine of websocket-acc: the ConnectionManager of     *)
(* api.py (registry, rounding grid, pairing map, hit/miss counters) driven *)
(* by the websocket_endpoint handler.                                      *)
(*                                                                         *)
(* Units.  Latitude and longitude are integers counting 1e-4 degree from   *)
(* (45.0000, 21.0000); cells count 1e-3 degree from the same origin;       *)
(* distances are centimetres; headings are degrees.  Every reported point  *)
(* lies on the meridian 21.0000, where the haversine distance is           *)
(* R * |dphi| = 11.1195 m per 1e-4 degree and atan2(0, dlat) is 0 or 180.  *)
(*                                                                         *)
(* A Device carries device_id, heading, latitude and longitude.  Its       *)
(* accuracy and moved fields are written by the handler and read by        *)
(* nothing; the model leaves them out.  A connection reports one device id *)
(* for its lifetime (spec section 3: the id is stable per physical         *)
(* device); two live connections may report the same id.                   *)
(***************************************************************************)
EXTENDS Integers, Sequences, FiniteSets, TLC

\* ---------------------------------------------------------------- bounds
MaxConns   == 3      \* websockets accepted in one behaviour
MaxReports == 4      \* reports resolved in one behaviour (caps the counters)
MaxElapsed == 7      \* seconds the clock advances in one behaviour

\* ------------------------------------------------------ program constants
CmPerUnit        == 1112     \* 6371000 m * radians(1e-4 deg), in cm
DistanceLimit    == 10000    \* distance <= 100 (m), in cm
HeadingTolerance == 15       \* heading_diff <= 15
FacingCone       == 45       \* heading_diff <= 45 in _is_facing
Precision        == 10       \* round(x, 3): 1e-4 degree units per cell
Cooldown         == 5        \* now - last_sent > 5 (s) in should_notify
PairDistance     == 5000     \* dist < 50 (m) in pair_device, in cm
PairHeading      == 45       \* heading_diff < 45 in pair_device
MaxCandidates    == 2        \* longest candidates list handed to pair_device
StartTime        == 10       \* time.time() when the service is built, in s

\* ----------------------------------------------------------- input sets
None      == [none |-> TRUE]   \* an absent device or match
NoId      == "-"               \* an absent device id
Conns     == 1..MaxConns
DeviceIds == {"a", "b", "c"}
IdOrder   == <<"a", "b", "c">>
\* device ids are interchangeable strings: the k-th websocket reports one of
\* the first k ids, which covers every assignment up to renaming
IdsFor(ws) == {IdOrder[k] : k \in 1..(IF ws < Len(IdOrder) THEN ws ELSE Len(IdOrder))}
\* reported <<heading, latitude, longitude>>: 45.0000, 45.0003 and 45.0009 on
\* 21.0000 heading north (33 m, 67 m and 100.08 m apart), and 45.0003 heading
\* south
Inputs    == {<<0, 0, 0>>, <<0, 3, 0>>, <<0, 9, 0>>, <<180, 3, 0>>}

VARIABLES
    active_connections,  \* list of (ws, dev, last)
    device_grid,         \* cell -> list of (ws, dev); only non-empty cells are keys
    pairings,            \* device_id -> device_id
    cache_hits,
    cache_misses,
    accepted,            \* websockets accepted so far; the next one is accepted + 1
    resolved,            \* history: calls of find_paired_device so far
    last,                \* history: the operation that produced this state
    bonded,              \* history: pairs formed and kept pairable ever since
    \* RelayService (relay_service.py)
    device_to_ws,        \* device_id -> websocket, the dict given to RelayService
    broken,              \* websockets whose send_text raises
    relay_last,          \* the latest forward call and what it delivered
    \* PairingService (pairing_service.py)
    service_pairings,    \* PairingService.pairings: device_id -> device_id
    all_devices,         \* what get_all_devices() returns: device_id -> Device
    pair_last,           \* history: the latest pair_device or validate_pairing
    last_sent,           \* device_id -> time of the last notification
    now,                 \* time.time(), in seconds
    called,              \* history: ids should_notify was called for
    granted,             \* history: id -> time should_notify last returned True
    notify_last,         \* history: the latest should_notify call
    \* the tasks of websocket_endpoint, one per connection (api.py)
    pc,                  \* websocket -> where its task stands
    running,             \* the task the event loop is running, 0 when none
    inbox,               \* websocket -> the Device built from its latest message
    snap,                \* history: websocket -> the core state its update left
    \* one evaluation of _is_facing (api.py)
    facing_front,        \* the device whose heading is tested
    facing_back,         \* the device it should look at
    facing_bearing,      \* angle_to_back of that evaluation
    facing_result        \* what _is_facing(front, back) returned

coreVars == <<active_connections, device_grid, pairings, cache_hits, cache_misses,
              accepted, resolved, last, bonded>>

relayVars == <<device_to_ws, broken, relay_last>>

notifyVars == <<last_sent, now, called, granted, notify_last>>

serviceVars == <<service_pairings, all_devices, pair_last>>

taskVars == <<pc, running, inbox, snap>>

facingVars == <<facing_front, facing_back, facing_bearing, facing_result>>

vars == <<coreVars, relayVars, serviceVars, notifyVars, taskVars, facingVars>>

\* what the actions of one component leave alone
notCore == <<relayVars, serviceVars, notifyVars, taskVars, facingVars>>

notRelay == <<coreVars, serviceVars, notifyVars, taskVars, facingVars>>

notService == <<coreVars, relayVars, notifyVars, taskVars, facingVars>>

notNotify == <<coreVars, relayVars, serviceVars, taskVars, facingVars>>

notTask == <<relayVars, serviceVars, notifyVars, facingVars>>

notFacing == <<coreVars, relayVars, serviceVars, notifyVars, taskVars>>

\* os.getenv("TEST_MODE", "false").lower() == "true" with the variable unset
TEST_MODE == FALSE

\* ------------------------------------------------------------- geometry
Abs(x) == IF x < 0 THEN -x ELSE x

Min(x, y) == IF x < y THEN x ELSE y

\* haversine on one meridian: R * |dphi|
_calculate_distance(d1, d2) == Abs(d2.latitude - d1.latitude) * CmPerUnit

\* mutant: the difference is not wrapped around 360
_heading_diff_no_wrap(h1, h2) == Abs(h1 - h2)

_heading_diff(h1, h2) == Min(Abs(h1 - h2), 360 - Abs(h1 - h2))

\* degrees(atan2(dlon, dlat)) % 360 with dlon = 0
angle_to_back(front, back) ==
    IF back.latitude - front.latitude >= 0 THEN 0 ELSE 180

_is_facing(front, back) ==
    _heading_diff(front.heading, angle_to_back(front, back)) <= FacingCone

\* round(v, 3) of 45 + v/10000: the doubles of the points used round half up
Round3(v) == (v + Precision \div 2) \div Precision

_get_cell(device) == <<Round3(device.latitude), Round3(device.longitude)>>

offsets == <<-1, 0, 1>>

_get_neighboring_cells(cell) ==
    [k \in 1..9 |-> <<cell[1] + offsets[((k - 1) \div 3) + 1],
                      cell[2] + offsets[((k - 1) % 3) + 1]>>]

\* ------------------------------------------------------------- registry
Device(id, h, lat, lon) ==
    [device_id |-> id, heading |-> h, latitude |-> lat, longitude |-> lon]

IsLive(conns, ws) == \E i \in 1..Len(conns) : conns[i].ws = ws

\* mutant: removal by position, where an absent websocket removes the tail
RemoveConnection_or_last(conns, ws) ==
    IF IsLive(conns, ws)
    THEN LET Keep(e) == e.ws # ws IN SelectSeq(conns, Keep)
    ELSE SubSeq(conns, 1, Len(conns) - 1)

\* list comprehension of disconnect: keep every entry of another websocket
RemoveConnection(conns, ws) ==
    LET Keep(e) == e.ws # ws IN SelectSeq(conns, Keep)

_remove_from_grid(grid, ws) ==
    LET Keep(e) == e.ws # ws
        filtered == [c \in DOMAIN grid |-> SelectSeq(grid[c], Keep)]
        kept == {c \in DOMAIN grid : filtered[c] # <<>>}
    IN [c \in kept |-> filtered[c]]

\* device_grid[cell].append((ws, dev)) on a defaultdict(list)
GridAppend(grid, cell, entry) ==
    [c \in DOMAIN grid \cup {cell} |->
        IF c = cell
        THEN (IF c \in DOMAIN grid THEN grid[c] ELSE <<>>) \o <<entry>>
        ELSE grid[c]]

Pop(m, k) == [x \in DOMAIN m \ {k} |-> m[x]]

Put(m, k, v) == [x \in DOMAIN m \cup {k} |-> IF x = k THEN v ELSE m[x]]

\* first index of ws in the list, 0 when absent
IndexOf(conns, ws) ==
    IF IsLive(conns, ws)
    THEN CHOOSE i \in 1..Len(conns) :
            conns[i].ws = ws /\ \A j \in 1..(i - 1) : conns[j].ws # ws
    ELSE 0

\* _remove_pairings: looks the websocket up in the list it is given
_remove_pairings(conns, prs, ws) ==
    LET i == IndexOf(conns, ws) IN
    IF i = 0 \/ conns[i].dev = None THEN prs
    ELSE LET device_id == conns[i].dev.device_id IN
         IF device_id \in DOMAIN prs
         THEN Pop(Pop(prs, device_id), prs[device_id])
         ELSE prs

\* update_device_data: self.active_connections[i] = (ws, new_device, new_device)
UpdateConnections(conns, ws, dev) ==
    LET i == IndexOf(conns, ws) IN
    [conns EXCEPT ![i] = [ws |-> ws, dev |-> dev, last |-> dev]]

\* mutant: the new entry is appended without removing the old one
Reindex_keeps_old(grid, ws, dev) ==
    GridAppend(grid, _get_cell(dev), [ws |-> ws, dev |-> dev])

\* update_device_data: _remove_from_grid(ws), then append to the new cell
Reindex(grid, ws, dev) ==
    GridAppend(_remove_from_grid(grid, ws), _get_cell(dev), [ws |-> ws, dev |-> dev])

\* --------------------------------------------------------- pairing engine
\* mutant: revalidation also asks that the peer faces the reporter
StillValid_facing(device, paired_device) ==
    /\ _calculate_distance(device, paired_device) <= DistanceLimit
    /\ (_heading_diff(device.heading, paired_device.heading) <= HeadingTolerance \/ TEST_MODE)
    /\ (TEST_MODE \/ _is_facing(paired_device, device))

\* the stale gate of get_cached_pair (line 114)
StillValid(device, paired_device) ==
    /\ _calculate_distance(device, paired_device) <= DistanceLimit
    /\ (_heading_diff(device.heading, paired_device.heading) <= HeadingTolerance \/ TEST_MODE)

\* mutant: the reporter's own id is not skipped
Compatible_any_id(back_device, front_device) ==
    /\ _calculate_distance(back_device, front_device) <= DistanceLimit
    /\ (_heading_diff(back_device.heading, front_device.heading) <= HeadingTolerance \/ TEST_MODE)
    /\ (TEST_MODE \/ _is_facing(front_device, back_device))

\* the compatibility test of find_paired_device (lines 139-146)
Compatible(back_device, front_device) ==
    /\ front_device.device_id # back_device.device_id
    /\ _calculate_distance(back_device, front_device) <= DistanceLimit
    /\ (_heading_diff(back_device.heading, front_device.heading) <= HeadingTolerance \/ TEST_MODE)
    /\ (TEST_MODE \/ _is_facing(front_device, back_device))

Match(ws, dev, distance) == [ws |-> ws, dev |-> dev, distance |-> distance]

\* mutant: a stale pairing drops the reporter's entry and leaves the peer's
get_cached_pair_onesided(conns, prs, device) ==
    IF device.device_id \notin DOMAIN prs
    THEN [result |-> None, pairings |-> prs, hit |-> FALSE]
    ELSE LET paired_id == prs[device.device_id]
             Ok(i) == /\ conns[i].dev # None
                      /\ conns[i].dev.device_id = paired_id
                      /\ StillValid(device, conns[i].dev)
             found == {i \in 1..Len(conns) : Ok(i)}
         IN IF found # {}
            THEN LET i == CHOOSE k \in found : \A j \in found : k <= j
                 IN [result |-> Match(None, conns[i].dev,
                                      _calculate_distance(device, conns[i].dev)),
                     pairings |-> prs, hit |-> TRUE]
            ELSE [result |-> None,
                  pairings |-> Pop(prs, device.device_id),
                  hit |-> FALSE]

\* get_cached_pair: the first live entry of the cached peer id that passes
\* the gate is a hit; otherwise both pairing entries are popped
get_cached_pair(conns, prs, device) ==
    IF device.device_id \notin DOMAIN prs
    THEN [result |-> None, pairings |-> prs, hit |-> FALSE]
    ELSE LET paired_id == prs[device.device_id]
             Ok(i) == /\ conns[i].dev # None
                      /\ conns[i].dev.device_id = paired_id
                      /\ StillValid(device, conns[i].dev)
             found == {i \in 1..Len(conns) : Ok(i)}
         IN IF found # {}
            THEN LET i == CHOOSE k \in found : \A j \in found : k <= j
                 IN [result |-> Match(None, conns[i].dev,
                                      _calculate_distance(device, conns[i].dev)),
                     pairings |-> prs, hit |-> TRUE]
            ELSE [result |-> None,
                  pairings |-> Pop(Pop(prs, device.device_id), paired_id),
                  hit |-> FALSE]

\* the entries visited by the two nested loops, in visiting order
RECURSIVE Candidates(_, _, _)
Candidates(grid, cells, k) ==
    IF k > Len(cells) THEN <<>>
    ELSE (IF cells[k] \in DOMAIN grid THEN grid[cells[k]] ELSE <<>>)
         \o Candidates(grid, cells, k + 1)

\* mutant: distance <= min_distance, so the last of several nearest is kept
Better_or_equal(best, back_device, e) ==
    LET distance == _calculate_distance(back_device, e.dev) IN
    IF Compatible(back_device, e.dev)
       /\ (best = None \/ distance <= best.distance)
    THEN Match(e.ws, e.dev, distance)
    ELSE best

\* one iteration of the inner loop: a compatible entry replaces best_match
\* only when strictly nearer
Better(best, back_device, e) ==
    LET distance == _calculate_distance(back_device, e.dev) IN
    IF Compatible(back_device, e.dev)
       /\ (best = None \/ distance < best.distance)
    THEN Match(e.ws, e.dev, distance)
    ELSE best

RECURSIVE Scan(_, _, _, _)
Scan(cands, i, back_device, best) ==
    IF i > Len(cands) THEN best
    ELSE Scan(cands, i + 1, back_device, Better(best, back_device, cands[i]))

\* the symmetric recording of lines 151-153
Record(prs, best, back_device) ==
    IF best = None THEN prs
    ELSE Put(Put(prs, back_device.device_id, best.dev.device_id),
             best.dev.device_id, back_device.device_id)

\* mutant: a dropped pairing ends the call, the search waits for the next report
find_paired_device_no_fallthrough(conns, grid, prs, back_device) ==
    LET cached == get_cached_pair(conns, prs, back_device) IN
    IF cached.hit \/ back_device.device_id \in DOMAIN prs THEN cached
    ELSE LET cands == Candidates(grid, _get_neighboring_cells(_get_cell(back_device)), 1)
             best_match == Scan(cands, 1, back_device, None)
         IN [result |-> best_match,
             pairings |-> Record(cached.pairings, best_match, back_device),
             hit |-> FALSE]

\* self.cache_hits += 1 on the hit path of get_cached_pair (line 115)
CountHit(hits, found) == IF found.hit THEN hits + 1 ELSE hits

\* mutant: the miss is counted after the scan, when it found nobody
CountMiss_unmatched(misses, found) ==
    IF found.hit \/ found.result # None THEN misses ELSE misses + 1

\* self.cache_misses += 1 whenever get_cached_pair returned None (line 128)
CountMiss(misses, found) == IF found.hit THEN misses ELSE misses + 1

find_paired_device(conns, grid, prs, back_device) ==
    LET cached == get_cached_pair(conns, prs, back_device) IN
    IF cached.hit THEN cached
    ELSE LET cands == Candidates(grid, _get_neighboring_cells(_get_cell(back_device)), 1)
             best_match == Scan(cands, 1, back_device, None)
         IN [result |-> best_match,
             pairings |-> Record(cached.pairings, best_match, back_device),
             hit |-> FALSE]

\* ------------------------------------------------------ history helpers
PeerOf(prs, id) == IF id \in DOMAIN prs THEN prs[id] ELSE NoId

SymPaired(prs, id) ==
    /\ id \in DOMAIN prs
    /\ prs[id] \in DOMAIN prs
    /\ prs[prs[id]] = id

LiveDevs(conns, id) ==
    {conns[i].dev : i \in {j \in 1..Len(conns) :
                              conns[j].dev # None /\ conns[j].dev.device_id = id}}

KeepsPairable(conns, device, id) ==
    \E d \in LiveDevs(conns, id) : StillValid(device, d)

Drifted(conns, device, id) ==
    /\ LiveDevs(conns, id) # {}
    /\ \A d \in LiveDevs(conns, id) : _calculate_distance(device, d) > DistanceLimit

NobodyPairable(conns, ws, device) ==
    \A i \in 1..Len(conns) :
        (conns[i].ws # ws /\ conns[i].dev # None)
            => ~Compatible(device, conns[i].dev)

NoOp == [op |-> "init", ws |-> 0, dev |-> None, result |-> None, hit |-> FALSE,
         hits |-> 0, misses |-> 0,
         wasLive |-> FALSE, prePeer |-> NoId, preSym |-> FALSE,
         drift |-> FALSE, kept |-> FALSE, alone |-> FALSE, afterDisc |-> FALSE]

\* ---------------------------------------------------------------- state
CoreInit ==
    /\ active_connections = <<>>
    /\ device_grid = <<>>
    /\ pairings = <<>>
    /\ cache_hits = 0
    /\ cache_misses = 0
    /\ accepted = 0
    /\ resolved = 0
    /\ last = NoOp
    /\ bonded = {}

\* connect: accept and append (ws, None, None); every accepted websocket is a
\* new object
Connect(ws) ==
    /\ ws = accepted + 1
    /\ accepted' = ws
    /\ active_connections' =
          Append(active_connections, [ws |-> ws, dev |-> None, last |-> None])
    /\ last' = [NoOp EXCEPT !.op = "connect", !.ws = ws]
    /\ UNCHANGED <<device_grid, pairings, cache_hits, cache_misses, resolved, bonded>>
    /\ UNCHANGED notCore

\* disconnect: filter the list, then _remove_from_grid, then _remove_pairings
\* on the list as it is by then.  The handler calls it once for a live
\* connection; a repeated call for the same websocket follows that one.
Disconnect(ws) ==
    LET i == IndexOf(active_connections, ws)
        dev == IF i = 0 THEN None ELSE active_connections[i].dev
        id == IF dev = None THEN NoId ELSE dev.device_id
        conns1 == RemoveConnection(active_connections, ws)
    IN /\ i # 0 \/ (last.op = "disconnect" /\ last.ws = ws)
       /\ active_connections' = conns1
       /\ device_grid' = _remove_from_grid(device_grid, ws)
       /\ pairings' = _remove_pairings(conns1, pairings, ws)
       /\ bonded' = {p \in bonded : id \notin p}
       /\ last' = [NoOp EXCEPT !.op = "disconnect", !.ws = ws, !.dev = dev,
                               !.wasLive = (i # 0),
                               !.prePeer = PeerOf(pairings, id),
                               !.preSym = SymPaired(pairings, id)]
       /\ UNCHANGED <<cache_hits, cache_misses, accepted, resolved>>
       /\ UNCHANGED notCore

\* one iteration of the receive loop of websocket_endpoint:
\* update_device_data followed by find_paired_device
Report(ws, id, h, lat, lon) ==
    /\ IsLive(active_connections, ws)
    /\ LET cur == active_connections[IndexOf(active_connections, ws)].dev
       IN IF cur = None THEN TRUE ELSE cur.device_id = id
    /\ cache_hits + cache_misses < MaxReports
    /\ LET device == Device(id, h, lat, lon)
           conns1 == UpdateConnections(active_connections, ws, device)
           grid1 == Reindex(device_grid, ws, device)
           found == find_paired_device(conns1, grid1, pairings, device)
           keptBonds == {p \in bonded :
                            id \in p => \A y \in p \ {id} :
                                           KeepsPairable(conns1, device, y)}
       IN /\ active_connections' = conns1
          /\ device_grid' = grid1
          /\ pairings' = found.pairings
          /\ cache_hits' = CountHit(cache_hits, found)
          /\ cache_misses' = CountMiss(cache_misses, found)
          /\ resolved' = resolved + 1
          /\ bonded' = keptBonds \cup
                        (IF found.result = None THEN {}
                         ELSE {{id, found.result.dev.device_id}})
          /\ last' = [NoOp EXCEPT
                        !.op = "report", !.ws = ws, !.dev = device,
                        !.result = found.result, !.hit = found.hit,
                        !.hits = cache_hits' - cache_hits,
                        !.misses = cache_misses' - cache_misses,
                        !.wasLive = TRUE,
                        !.prePeer = PeerOf(pairings, id),
                        !.preSym = SymPaired(pairings, id),
                        !.drift = (id \in DOMAIN pairings
                                   /\ Drifted(conns1, device, pairings[id])),
                        !.kept = (\E p \in bonded : id \in p /\ p \in keptBonds),
                        !.alone = NobodyPairable(conns1, ws, device),
                        !.afterDisc = (/\ last.op = "disconnect"
                                       /\ last.wasLive
                                       /\ last.preSym
                                       /\ last.prePeer = id)]
    /\ UNCHANGED accepted
    /\ UNCHANGED notCore

Next ==
    \/ \E ws \in Conns : Connect(ws)
    \/ \E ws \in Conns : Disconnect(ws)
    \/ \E ws \in Conns : \E id \in IdsFor(ws), in \in Inputs :
          Report(ws, id, in[1], in[2], in[3])

\* ------------------------------------------------------------ RelayService
\* the devices handed to forward as from_device
RelayInputs == {<<0, 0, 0>>, <<180, 3, 0>>}

\* the peer_update message of lines 13-20, without its sent_time
PeerUpdate(from_device) ==
    [type |-> "peer_update",
     peer |-> [device_id |-> from_device.device_id,
               latitude |-> from_device.latitude,
               longitude |-> from_device.longitude,
               heading |-> from_device.heading]]

\* await to_ws.send_text(text): raises on a broken websocket, else delivers
send_text(bad, ws, text) ==
    IF ws \in bad
    THEN [raised |-> TRUE, delivered |-> <<>>]
    ELSE [raised |-> FALSE, delivered |-> <<[ws |-> ws, text |-> text]>>]

\* the names bound at module level in relay_service.py (lines 1-6): the
\* imports and the class
RelayGlobals == {"asyncio", "orjson", "Dict", "WebSocket", "RelayService"}

\* the dict display of lines 13-22 reads the global name time for sent_time;
\* a name the module never bound raises NameError
BuildMessage(from_device) ==
    IF "time" \in RelayGlobals
    THEN [raised |-> FALSE, message |-> PeerUpdate(from_device)]
    ELSE [raised |-> TRUE, message |-> None]

\* RelayService.forward: device_to_ws.get(to_device_id), the message built
\* outside the try, then the send under try / except Exception
forward(map, bad, from_device, to_device_id) ==
    IF to_device_id \notin DOMAIN map
    THEN [outcome |-> "returned", delivered |-> <<>>, failed |-> FALSE]
    ELSE LET built == BuildMessage(from_device) IN
         IF built.raised
         THEN [outcome |-> "raised", delivered |-> <<>>, failed |-> FALSE]
         ELSE LET sent == send_text(bad, map[to_device_id], built.message)
              IN [outcome |-> "returned",
                  delivered |-> sent.delivered, failed |-> sent.raised]

NoForward == [op |-> "init", from |-> None, to |-> NoId,
              outcome |-> "returned", delivered |-> <<>>, failed |-> FALSE]

RelayInit ==
    /\ device_to_ws = <<>>
    /\ broken = {}
    /\ relay_last = NoForward

\* the owner of the dict registers the connection of a device
Attach(id, ws) ==
    /\ ws \notin broken
    /\ device_to_ws' = Put(device_to_ws, id, ws)
    /\ relay_last' = NoForward
    /\ UNCHANGED broken
    /\ UNCHANGED notRelay

\* the owner of the dict removes a device
Detach(id) ==
    /\ id \in DOMAIN device_to_ws
    /\ device_to_ws' = Pop(device_to_ws, id)
    /\ relay_last' = NoForward
    /\ UNCHANGED broken
    /\ UNCHANGED notRelay

\* the remote end of a websocket goes away while the dict still holds it
Break(ws) ==
    /\ ws \notin broken
    /\ broken' = broken \cup {ws}
    /\ relay_last' = NoForward
    /\ UNCHANGED device_to_ws
    /\ UNCHANGED notRelay

\* one call of forward(from_device, to_device_id)
Forward(id, h, lat, lon, to_device_id) ==
    /\ LET from_device == Device(id, h, lat, lon)
           done == forward(device_to_ws, broken, from_device, to_device_id)
       IN relay_last' = [op |-> "forward", from |-> from_device,
                         to |-> to_device_id, outcome |-> done.outcome,
                         delivered |-> done.delivered, failed |-> done.failed]
    /\ UNCHANGED <<device_to_ws, broken>>
    /\ UNCHANGED notRelay

RelayNext ==
    \/ \E id \in DeviceIds, ws \in Conns : Attach(id, ws)
    \/ \E id \in DeviceIds : Detach(id)
    \/ \E ws \in Conns : Break(ws)
    \/ \E id \in DeviceIds, in \in RelayInputs, to \in DeviceIds :
          Forward(id, in[1], in[2], in[3], to)

\* --------------------------------------------- PairingService.should_notify
\* self.last_sent[device_id] on a defaultdict(lambda: 0): a missing key is
\* inserted with 0
Touch(ls, device_id) ==
    IF device_id \in DOMAIN ls THEN ls ELSE Put(ls, device_id, 0)

\* mutant: one timestamp for all devices
should_notify_shared(ls, t, device_id) ==
    LET seen == Touch(ls, NoId) IN
    IF t - seen[NoId] > Cooldown
    THEN [result |-> TRUE, last_sent |-> Put(seen, NoId, t)]
    ELSE [result |-> FALSE, last_sent |-> seen]

\* should_notify at time t
should_notify(ls, t, device_id) ==
    LET seen == Touch(ls, device_id) IN
    IF t - seen[device_id] > Cooldown
    THEN [result |-> TRUE, last_sent |-> Put(seen, device_id, t)]
    ELSE [result |-> FALSE, last_sent |-> seen]

NoNotify == [op |-> "init", id |-> NoId, result |-> FALSE,
             first |-> FALSE, elapsed |-> 0]

NotifyInit ==
    /\ last_sent = <<>>
    /\ now = StartTime
    /\ called = {}
    /\ granted = <<>>
    /\ notify_last = NoNotify

\* the clock advances by a second
Tick ==
    /\ now < StartTime + MaxElapsed
    /\ now' = now + 1
    /\ notify_last' = NoNotify
    /\ UNCHANGED <<last_sent, called, granted>>
    /\ UNCHANGED notNotify

\* one call of should_notify(device_id)
ShouldNotify(device_id) ==
    /\ LET done == should_notify(last_sent, now, device_id)
       IN /\ last_sent' = done.last_sent
          /\ granted' = IF done.result THEN Put(granted, device_id, now)
                                       ELSE granted
          /\ notify_last' =
                [op |-> "notify", id |-> device_id, result |-> done.result,
                 first |-> device_id \notin called,
                 elapsed |-> IF device_id \in DOMAIN granted
                             THEN now - granted[device_id] ELSE 0]
    /\ called' = called \cup {device_id}
    /\ UNCHANGED now
    /\ UNCHANGED notNotify

NotifyNext ==
    \/ Tick
    \/ \E id \in DeviceIds : ShouldNotify(id)

\* ---------------------------------------------- PairingService.pair_device
ServiceIds == {"test1", "test2", "a"}

\* reported <<heading, latitude, longitude>> of the devices of the service:
\* 45.0000 heading north, 45.0009 (100.08 m away) heading north, and 45.0000
\* heading east
ServiceInputs == {<<0, 0, 0>>, <<0, 9, 0>>, <<90, 0, 0>>}

static_test_pairs == {<<"test1", "test2">>, <<"test2", "test1">>}

\* models.haversine on one meridian: R * |dphi|
haversine(lat1, lon1, lat2, lon2) == Abs(lat2 - lat1) * CmPerUnit

\* dict.get(key)
Get(m, k) == IF k \in DOMAIN m THEN m[k] ELSE None

_register_pair(prs, id1, id2) == Put(Put(prs, id1, id2), id2, id1)

\* the first of the positions of a list that pass a test, 0 when none does
First(passing) ==
    IF passing = {}
    THEN 0
    ELSE CHOOSE i \in passing : \A j \in passing : i <= j

\* the test of the general loop (lines 28-32)
Near(prs, device, other) ==
    /\ device.device_id # other.device_id
    /\ other.device_id \notin DOMAIN prs
    /\ haversine(device.latitude, device.longitude,
                 other.latitude, other.longitude) < PairDistance
    /\ Abs(device.heading - other.heading) < PairHeading

\* the fallback loop (lines 37-43): the static partner of the device, when
\* get_all_devices() holds it
Fallback(devs, device) ==
    {p \in static_test_pairs : p[1] = device.device_id /\ p[2] \in DOMAIN devs}

\* lines 20-45: the search of a device that has no pairing
Search(prs, devs, device, candidates) ==
    LET Static == {i \in 1..Len(candidates) :
                      <<device.device_id, candidates[i].device_id>>
                          \in static_test_pairs}
        General == {i \in 1..Len(candidates) :
                       Near(prs, device, candidates[i])}
        s == First(Static)
        g == First(General)
    IN IF s # 0
       THEN [result |-> candidates[s],
             pairings |-> _register_pair(prs, device.device_id,
                                         candidates[s].device_id)]
       ELSE IF g # 0
       THEN [result |-> candidates[g],
             pairings |-> _register_pair(prs, device.device_id,
                                         candidates[g].device_id)]
       ELSE IF Fallback(devs, device) # {}
       THEN LET p == CHOOSE q \in Fallback(devs, device) : TRUE
            IN [result |-> devs[p[2]],
                pairings |-> _register_pair(prs, p[1], p[2])]
       ELSE [result |-> None, pairings |-> prs]

\* mutant: a pairing whose peer is gone is dropped and the device searches
pair_device_revalidating(prs, devs, device, candidates) ==
    IF device.device_id \in DOMAIN prs
    THEN IF prs[device.device_id] \in DOMAIN devs
         THEN [result |-> devs[prs[device.device_id]], pairings |-> prs]
         ELSE Search(Pop(Pop(prs, device.device_id), prs[device.device_id]),
                     devs, device, candidates)
    ELSE Search(prs, devs, device, candidates)

\* pair_device: an already paired device gets get_all_devices().get(peer_id)
pair_device(prs, devs, device, candidates) ==
    IF device.device_id \in DOMAIN prs
    THEN [result |-> Get(devs, prs[device.device_id]), pairings |-> prs]
    ELSE Search(prs, devs, device, candidates)

\* the lists of up to MaxCandidates distinct registered devices
CandidateLists(devs) ==
    UNION {{c \in [1..n -> DOMAIN devs] :
               \A i \in 1..n : \A j \in 1..n : i # j => c[i] # c[j]} :
           n \in 0..MaxCandidates}

NoPair == [op |-> "init", id |-> NoId, result |-> None, wasPaired |-> FALSE,
           prePeer |-> NoId, offered |-> 0, before |-> <<>>]

ServiceInit ==
    /\ service_pairings = <<>>
    /\ all_devices = <<>>
    /\ pair_last = NoPair

\* the owner of the registry stores the latest report of a device
SetDevice(id, h, lat, lon) ==
    /\ all_devices' = Put(all_devices, id, Device(id, h, lat, lon))
    /\ pair_last' = [NoPair EXCEPT !.before = service_pairings]
    /\ UNCHANGED service_pairings
    /\ UNCHANGED notService

\* the owner of the registry removes a device that disconnected
DropDevice(id) ==
    /\ id \in DOMAIN all_devices
    /\ all_devices' = Pop(all_devices, id)
    /\ pair_last' = [NoPair EXCEPT !.before = service_pairings]
    /\ UNCHANGED service_pairings
    /\ UNCHANGED notService

\* one call of pair_device for a registered device, with a list of
\* registered devices as candidates
PairDevice(id, ids) ==
    /\ id \in DOMAIN all_devices
    /\ LET candidates == [i \in 1..Len(ids) |-> all_devices[ids[i]]]
           done == pair_device(service_pairings, all_devices,
                               all_devices[id], candidates)
       IN /\ service_pairings' = done.pairings
          /\ pair_last' = [op |-> "pair", id |-> id, result |-> done.result,
                           wasPaired |-> id \in DOMAIN service_pairings,
                           prePeer |-> PeerOf(service_pairings, id),
                           offered |-> Len(ids),
                           before |-> service_pairings]
    /\ UNCHANGED all_devices
    /\ UNCHANGED notService

\* validate_pairing: a stub that returns at once
ValidatePairing(id) ==
    /\ id \in DOMAIN all_devices
    /\ pair_last' = [NoPair EXCEPT !.op = "validate", !.id = id,
                                   !.before = service_pairings]
    /\ UNCHANGED <<service_pairings, all_devices>>
    /\ UNCHANGED notService

ServiceNext ==
    \/ \E id \in ServiceIds, in \in ServiceInputs :
          SetDevice(id, in[1], in[2], in[3])
    \/ \E id \in ServiceIds : DropDevice(id)
    \/ \E id \in ServiceIds : \E ids \in CandidateLists(all_devices) :
          PairDevice(id, ids)
    \/ \E id \in ServiceIds : ValidatePairing(id)
    \/ \E id \in ServiceIds : ShouldNotify(id)

\* ------------------------------------------- the tasks of websocket_endpoint
\* mutant: a task can be suspended before every line of the loop
SuspendsAt_every_line == {"receive", "update", "find", "send"}

\* the awaits of the receive loop: receive_json (line 168) and send_text
\* (line 200); a task gives up the event loop nowhere else
SuspendsAt == {"receive", "send"}

\* a task takes its next step when the event loop runs it, or when the loop
\* is free and the task waits at an await
MayStep(ws) ==
    \/ running = ws
    \/ running = 0 /\ pc[ws] \in SuspendsAt

\* the task keeps the event loop until it reaches an await
LoopAfter(ws, at) == IF at \in SuspendsAt THEN 0 ELSE ws

CoreState ==
    <<active_connections, device_grid, pairings, cache_hits, cache_misses>>

TaskInit ==
    /\ pc = [ws \in Conns |-> "idle"]
    /\ running = 0
    /\ inbox = [ws \in Conns |-> None]
    /\ snap = [ws \in Conns |-> <<>>]

\* lines 162-164: connect, then the greeting; the task waits in receive_json
Accept(ws) ==
    /\ running = 0
    /\ pc[ws] = "idle"
    /\ ws = accepted + 1
    /\ accepted' = ws
    /\ active_connections' =
          Append(active_connections, [ws |-> ws, dev |-> None, last |-> None])
    /\ pc' = [pc EXCEPT ![ws] = "receive"]
    /\ running' = LoopAfter(ws, "receive")
    /\ UNCHANGED <<device_grid, pairings, cache_hits, cache_misses, resolved,
                   last, bonded>>
    /\ UNCHANGED <<inbox, snap>>
    /\ UNCHANGED notTask

\* lines 168-177: receive_json returns and the Device is built
Receive(ws, id, h, lat, lon) ==
    /\ MayStep(ws)
    /\ pc[ws] = "receive"
    /\ LET i == IndexOf(active_connections, ws)
       IN /\ i # 0
          /\ IF active_connections[i].dev = None THEN TRUE
             ELSE active_connections[i].dev.device_id = id
    /\ cache_hits + cache_misses
          + Cardinality({w \in Conns : pc[w] \in {"update", "find"}}) < MaxReports
    /\ inbox' = [inbox EXCEPT ![ws] = Device(id, h, lat, lon)]
    /\ pc' = [pc EXCEPT ![ws] = "update"]
    /\ running' = LoopAfter(ws, "update")
    /\ UNCHANGED <<coreVars, snap>>
    /\ UNCHANGED notTask

\* line 179: manager.update_device_data(websocket, device)
Update(ws) ==
    /\ MayStep(ws)
    /\ pc[ws] = "update"
    /\ active_connections' = UpdateConnections(active_connections, ws, inbox[ws])
    /\ device_grid' = Reindex(device_grid, ws, inbox[ws])
    /\ pc' = [pc EXCEPT ![ws] = "find"]
    /\ running' = LoopAfter(ws, "find")
    /\ snap' = [snap EXCEPT ![ws] =
                   <<active_connections', device_grid', pairings,
                     cache_hits, cache_misses>>]
    /\ UNCHANGED <<pairings, cache_hits, cache_misses, accepted, resolved,
                   last, bonded>>
    /\ UNCHANGED inbox
    /\ UNCHANGED notTask

\* line 180: manager.find_paired_device(device); the task then waits in
\* send_text
Find(ws) ==
    /\ MayStep(ws)
    /\ pc[ws] = "find"
    /\ LET found == find_paired_device(active_connections, device_grid,
                                       pairings, inbox[ws])
       IN /\ pairings' = found.pairings
          /\ cache_hits' = CountHit(cache_hits, found)
          /\ cache_misses' = CountMiss(cache_misses, found)
    /\ resolved' = resolved + 1
    /\ pc' = [pc EXCEPT ![ws] = "send"]
    /\ running' = LoopAfter(ws, "send")
    /\ snap' = [snap EXCEPT ![ws] = <<>>]
    /\ inbox' = [inbox EXCEPT ![ws] = None]
    /\ UNCHANGED <<active_connections, device_grid, accepted, last, bonded>>
    /\ UNCHANGED notTask

\* line 200: send_text returns, back to receive_json
Send(ws) ==
    /\ MayStep(ws)
    /\ pc[ws] = "send"
    /\ pc' = [pc EXCEPT ![ws] = "receive"]
    /\ running' = LoopAfter(ws, "receive")
    /\ UNCHANGED <<coreVars, inbox, snap>>
    /\ UNCHANGED notTask

\* lines 202-207: the await raises (WebSocketDisconnect or another
\* exception) and the handler calls manager.disconnect
Close(ws) ==
    /\ running = 0
    /\ pc[ws] \in SuspendsAt
    /\ LET conns1 == RemoveConnection(active_connections, ws)
       IN /\ active_connections' = conns1
          /\ device_grid' = _remove_from_grid(device_grid, ws)
          /\ pairings' = _remove_pairings(conns1, pairings, ws)
    /\ pc' = [pc EXCEPT ![ws] = "closed"]
    /\ UNCHANGED <<cache_hits, cache_misses, accepted, resolved, last, bonded>>
    /\ UNCHANGED <<running, inbox, snap>>
    /\ UNCHANGED notTask

TaskNext ==
    \/ \E ws \in Conns : Accept(ws)
    \/ \E ws \in Conns : \E id \in IdsFor(ws), in \in Inputs :
          Receive(ws, id, in[1], in[2], in[3])
    \/ \E ws \in Conns : Update(ws)
    \/ \E ws \in Conns : Find(ws)
    \/ \E ws \in Conns : Send(ws)
    \/ \E ws \in Conns : Close(ws)

\* ------------------------------------------------- _is_facing on its own
\* headings around the edges of the 45 degree cone, on both sides of north
FacingHeadings == {0, 45, 46, 135, 180, 225, 314, 315}

\* latitudes 45.0000 and 45.0005 (55.6 m apart) on the meridian 21.0000
FacingLatitudes == {0, 5}

FacingInit ==
    /\ facing_front = None
    /\ facing_back = None
    /\ facing_bearing = 0
    /\ facing_result = FALSE

\* _is_facing(front, back) for two devices
Facing(fid, fh, flat, bid, bh, blat) ==
    /\ fid # bid
    /\ LET f == Device(fid, fh, flat, 0)
           b == Device(bid, bh, blat, 0)
       IN /\ facing_front' = f
          /\ facing_back' = b
          /\ facing_bearing' = angle_to_back(f, b)
          /\ facing_result' = _is_facing(f, b)
    /\ UNCHANGED notFacing

FacingNext ==
    \E fid \in {"a", "b"}, bid \in {"a", "b"} :
       \E fh \in FacingHeadings, bh \in FacingHeadings :
          \E flat \in FacingLatitudes, blat \in FacingLatitudes :
             Facing(fid, fh, flat, bid, bh, blat)

\* -------------------------------------------------------- specifications
Init ==
    CoreInit /\ RelayInit /\ ServiceInit /\ NotifyInit /\ TaskInit /\ FacingInit

\* the ConnectionManager behind websocket_endpoint, one report per step
Spec == Init /\ [][Next]_vars

\* RelayService over a dict its owner changes
RelaySpec == Init /\ [][RelayNext]_vars

\* PairingService over a registry its owner changes, the clock standing still
ServiceSpec == Init /\ [][ServiceNext]_vars

\* the notify cooldown of PairingService under a running clock
NotifySpec == Init /\ [][NotifyNext]_vars

\* _is_facing applied to pairs of devices on one meridian
FacingSpec == Init /\ [][FacingNext]_vars

\* the ConnectionManager behind the tasks of websocket_endpoint, one line of
\* the handler per step
TaskSpec == Init /\ [][TaskNext]_vars

\* ================================================================ claims
Paired(a, b) == a \in DOMAIN pairings /\ pairings[a] = b

LastId == last.dev.device_id

\* C1: the pairing map is symmetric: whenever pairings[a] = b, also
\* pairings[b] = a.
PairingSymmetric ==
    \A a \in DOMAIN pairings : Paired(pairings[a], a)

\* C2: no two distinct device ids are mapped by pairings to the same peer.
OnePairingPerDevice ==
    \A x \in DOMAIN pairings : \A y \in DOMAIN pairings :
        x # y => pairings[x] # pairings[y]

\* C3: right after disconnect of a connection whose device was paired with
\* a peer, neither the device id nor the peer id is a key of pairings.
DisconnectUnpairsBoth ==
    (last.op = "disconnect" /\ last.wasLive /\ last.preSym)
        => (LastId \notin DOMAIN pairings /\ last.prePeer \notin DOMAIN pairings)

\* the places <<cell, position>> of device_grid that hold an entry of ws
GridPlaces(ws) ==
    UNION {{<<c, k>> : k \in {n \in 1..Len(device_grid[c]) : device_grid[c][n].ws = ws}} :
              c \in DOMAIN device_grid}

\* C4: after disconnect(a) with a paired with b, the next report of b, no
\* other device being pairable with b, resolves to searching; and after a
\* disconnect no cell of device_grid holds an entry of that connection.
DisconnectCleanup ==
    /\ (last.op = "report" /\ last.afterDisc /\ last.alone) => last.result = None
    /\ (last.op = "disconnect") => GridPlaces(last.ws) = {}

\* C5: once a and b are paired, every later report of either that keeps them
\* within 100 m and 15 degrees is a cache hit (cache_hits + 1, cache_misses
\* unchanged, no scan), whatever other devices did in between.
CacheCorrectness ==
    (last.op = "report" /\ last.kept)
        => (last.hit /\ last.hits = 1 /\ last.misses = 0)

NearestMatch ==
    (last.op = "report" /\ ~last.hit) =>
        LET cands == Candidates(device_grid,
                                _get_neighboring_cells(_get_cell(last.dev)), 1)
            ok == {i \in 1..Len(cands) : Compatible(last.dev, cands[i].dev)}
            dist(i) == _calculate_distance(last.dev, cands[i].dev)
        IN IF ok = {} THEN last.result = None
           ELSE \E i \in ok :
                  /\ last.result = Match(cands[i].ws, cands[i].dev, dist(i))
                  /\ \A j \in ok : dist(j) >= dist(i)
                  /\ \A j \in ok : j < i => dist(j) > dist(i)
                  /\ Paired(LastId, cands[i].dev.device_id)
                  /\ Paired(cands[i].dev.device_id, LastId)

NearestWitness ==
    /\ last.op = "report" /\ ~last.hit /\ last.result # None
    /\ \E i \in 1..Len(active_connections) :
          /\ active_connections[i].dev # None
          /\ Compatible(last.dev, active_connections[i].dev)
          /\ _calculate_distance(last.dev, active_connections[i].dev)
                > last.result.distance

\* C8: no report returns a peer with the reporter's own device id, and
\* pairings never maps a device id to itself.
NoSelfPairing ==
    /\ \A a \in DOMAIN pairings : pairings[a] # a
    /\ (last.op = "report" /\ last.result # None)
          => last.result.dev.device_id # LastId

\* two live connections report the same id within range of each other, and
\* the report of one of them ran the scan
SelfWitness ==
    /\ last.op = "report" /\ ~last.hit /\ last.result # None
    /\ \E i \in 1..Len(active_connections) :
          /\ active_connections[i].ws # last.ws
          /\ active_connections[i].dev # None
          /\ active_connections[i].dev.device_id = LastId
          /\ Compatible_any_id(last.dev, active_connections[i].dev)

\* C9: a second disconnect of the same connection leaves active_connections,
\* device_grid and pairings as the first one left them.
IdempotentDisconnect ==
    [][(last'.op = "disconnect" /\ ~last'.wasLive)
          => UNCHANGED <<active_connections, device_grid, pairings>>]_vars

SecondDisconnect ==
    /\ last.op = "disconnect" /\ ~last.wasLive
    /\ Len(active_connections) > 0
    /\ DOMAIN device_grid # {}
    /\ DOMAIN pairings # {}

\* C10: a live connection that has reported has exactly one entry in
\* device_grid, in the cell of its latest report and holding that report; any
\* other websocket (not yet reported, or disconnected) has none.
GridMembership ==
    \A ws \in Conns :
        LET i == IndexOf(active_connections, ws) IN
        IF i # 0 /\ active_connections[i].dev # None
        THEN /\ Cardinality(GridPlaces(ws)) = 1
             /\ \A p \in GridPlaces(ws) :
                   /\ p[1] = _get_cell(active_connections[i].dev)
                   /\ device_grid[p[1]][p[2]].dev = active_connections[i].dev
        ELSE GridPlaces(ws) = {}

GridWitness ==
    /\ last.op = "disconnect" /\ last.wasLive /\ last.dev # None
    /\ \E i \in 1..Len(active_connections) : active_connections[i].dev = None
    /\ \E i \in 1..Len(active_connections) :
          /\ active_connections[i].dev # None
          /\ _get_cell(active_connections[i].dev) # _get_cell(last.dev)

\* C11: when pairings maps the reporter a to a peer id that no live connection
\* reports, the resolve completes, is a miss counted once (no hit), removes
\* a's entry for that peer and the peer's entry, and runs the neighbour search
\* in the same call: it returns a match exactly when a compatible candidate
\* is in the neighbourhood, and then records a paired with that match.
UnknownPeerRecovery ==
    (/\ last.op = "report"
     /\ last.prePeer # NoId
     /\ LiveDevs(active_connections, last.prePeer) = {})
        => LET cands == Candidates(device_grid,
                                   _get_neighboring_cells(_get_cell(last.dev)), 1)
               ok == {i \in 1..Len(cands) : Compatible(last.dev, cands[i].dev)}
           IN /\ ~last.hit /\ last.misses = 1 /\ last.hits = 0
              /\ last.prePeer \notin DOMAIN pairings
              /\ ~Paired(LastId, last.prePeer)
              /\ (last.result = None) <=> (ok = {})
              /\ last.result = None => LastId \notin DOMAIN pairings
              /\ last.result # None =>
                    /\ Paired(LastId, last.result.dev.device_id)
                    /\ Paired(last.result.dev.device_id, LastId)

\* the cached peer has disconnected and the same call returns a new match
UnknownPeerWitness ==
    /\ last.op = "report"
    /\ last.prePeer # NoId
    /\ LiveDevs(active_connections, last.prePeer) = {}
    /\ last.result # None
    /\ last.result.dev.device_id # last.prePeer

\* C12: RelayService.forward always returns normally to its caller: for a
\* target id absent from device_to_ws it delivers nothing, and for a target
\* that is in device_to_ws a failure of the delivery is swallowed.
RelayNeverRaises ==
    relay_last.op = "forward" =>
        /\ relay_last.outcome = "returned"
        /\ relay_last.to \notin DOMAIN device_to_ws
              => (relay_last.delivered = <<>> /\ ~relay_last.failed)
        /\ (/\ relay_last.to \in DOMAIN device_to_ws
            /\ device_to_ws[relay_last.to] \in broken)
              => relay_last.delivered = <<>>

\* C13: should_notify returns True on the first call for a device id, and
\* afterwards exactly when more than 5 seconds have passed since the last
\* call that returned True for that id, whatever was asked for other ids.
NotifyCooldown ==
    notify_last.op = "notify" =>
        (notify_last.result <=> (notify_last.first \/ notify_last.elapsed > 5))

\* a second True for an id, while another id was granted in between
NotifyWitness ==
    /\ notify_last.op = "notify"
    /\ notify_last.result /\ ~notify_last.first
    /\ \E other \in DOMAIN granted :
          /\ other # notify_last.id
          /\ granted[notify_last.id] - granted[other] \in 1..5

\* C14: while a connection's task stands between update_device_data and
\* find_paired_device, active_connections, device_grid, pairings and the
\* counters are as its update left them: no other connection's report
\* handling or disconnect has run in between.
SerializedReport ==
    \A ws \in Conns : pc[ws] = "find" => CoreState = snap[ws]

\* a task stands between its update and its find while another connection
\* waits at an await with a device registered and a third waits to be closed
SerializedWitness ==
    \E ws \in Conns :
        /\ pc[ws] = "find"
        /\ \E other \in Conns \ {ws} :
              /\ pc[other] \in SuspendsAt
              /\ \E i \in 1..Len(active_connections) :
                    /\ active_connections[i].ws = other
                    /\ active_connections[i].dev # None

\* C15: outside test mode, a report of a device whose pairings entry names a
\* peer with a live connection is a cache hit returning that peer exactly
\* when the peer is within 100 m and 15 degrees of heading, whether or not
\* the peer faces the reporter; otherwise the entry of the reporter for that
\* peer and the entry of the peer are dropped.
RevalidationGate ==
    (/\ last.op = "report"
     /\ last.prePeer # NoId
     /\ LiveDevs(active_connections, last.prePeer) # {})
        => LET within ==
                 \E d \in LiveDevs(active_connections, last.prePeer) :
                    /\ _calculate_distance(last.dev, d) <= DistanceLimit
                    /\ _heading_diff(last.dev.heading, d.heading) <= HeadingTolerance
           IN /\ last.hit <=> within
              /\ last.hit => /\ last.result # None
                             /\ last.result.dev.device_id = last.prePeer
                             /\ Paired(LastId, last.prePeer)
              /\ ~last.hit => /\ ~Paired(LastId, last.prePeer)
                              /\ last.prePeer \notin DOMAIN pairings

\* a cache hit on a peer that does not face the reporter
RevalidationWitness ==
    /\ last.op = "report" /\ last.hit
    /\ ~TEST_MODE
    /\ ~_is_facing(last.result.dev, last.dev)
    /\ \A d \in LiveDevs(active_connections, last.prePeer) :
          ~_is_facing(d, last.dev)

\* C16: the pairing map of PairingService is symmetric after any sequence of
\* pair_device calls, calls by test1 and test2 included: whenever
\* pairings[x] = y, also pairings[y] = x.
ServiceSymmetric ==
    \A x \in DOMAIN service_pairings :
        /\ service_pairings[x] \in DOMAIN service_pairings
        /\ service_pairings[service_pairings[x]] = x

\* C20: no call of pair_device, validate_pairing or should_notify removes a
\* key of the pairing map of PairingService; and pair_device for a device id
\* that is a key leaves the map as it was and returns
\* get_all_devices().get(peer id), which is None when the peer is gone,
\* whatever candidates it is given.
ServiceNeverUnpairs ==
    /\ pair_last.op # "init" =>
          DOMAIN pair_last.before \subseteq DOMAIN service_pairings
    /\ (pair_last.op = "pair" /\ pair_last.wasPaired) =>
          /\ service_pairings = pair_last.before
          /\ pair_last.result =
                (IF pair_last.prePeer \in DOMAIN all_devices
                 THEN all_devices[pair_last.prePeer] ELSE None)

\* a paired device whose peer is gone calls pair_device with a candidate
\* that the search would have taken
ServiceWitness ==
    /\ pair_last.op = "pair" /\ pair_last.wasPaired
    /\ pair_last.prePeer \notin DOMAIN all_devices
    /\ pair_last.offered > 0
    /\ \E other \in DOMAIN all_devices :
          Near(Pop(Pop(service_pairings, pair_last.id), other),
               all_devices[pair_last.id], all_devices[other])

\* C17 as stated: with A at (45.000, 21.000) heading 0 and B at
\* (45.0005, 21.000) heading 180, _is_facing(A, B) is true with bearing 0
\* and _is_facing(B, A) is false.
FacingGateAsStated ==
    /\ (facing_front = Device("a", 0, 0, 0) /\ facing_back = Device("b", 180, 5, 0))
          => (facing_result /\ facing_bearing = 0)
    /\ (facing_front = Device("b", 180, 5, 0) /\ facing_back = Device("a", 0, 0, 0))
          => ~facing_result

\* C17 as amended: _is_facing(front, back) holds iff the heading of front is
\* within 45 degrees, around the circle, of the bearing from front to back;
\* with A at (45.000, 21.000) heading 0 and B at (45.0005, 21.000) heading
\* 180, _is_facing(A, B) is true (bearing 0) and _is_facing(B, A) is true as
\* well (bearing 180, the heading of B).
FacingGate ==
    /\ facing_front # None =>
          (facing_result <=> \E k \in {-1, 0, 1} :
                         Abs(facing_front.heading - facing_bearing + 360 * k) <= 45)
    /\ (facing_front = Device("a", 0, 0, 0) /\ facing_back = Device("b", 180, 5, 0))
          => (facing_result /\ facing_bearing = 0)
    /\ (facing_front = Device("b", 180, 5, 0) /\ facing_back = Device("a", 0, 0, 0))
          => (facing_result /\ facing_bearing = 180)

\* B in front, A behind it
FacingWitness ==
    /\ facing_front = Device("b", 180, 5, 0)
    /\ facing_back = Device("a", 0, 0, 0)

\* C18: every call of find_paired_device adds one to exactly one of
\* cache_hits and cache_misses, a miss also for a device that had no pairing,
\* so cache_hits + cache_misses is the number of reports resolved so far and
\* no counter decreases.
CounterAccounting ==
    /\ cache_hits + cache_misses = resolved
    /\ last.op = "report" =>
          /\ <<last.hits, last.misses>> \in {<<1, 0>>, <<0, 1>>}
          /\ last.hits = 1 <=> last.hit
          /\ last.prePeer = NoId => last.misses = 1

\* hits and misses both counted, the latest a miss of a device that had no
\* pairing and found a match
CounterWitness ==
    /\ cache_hits > 0
    /\ last.op = "report" /\ last.prePeer = NoId
    /\ last.result # None
    /\ last.misses = 1

\* C19: the result of find_paired_device agrees with the pairing map on
\* return: a match with peer p means pairings[a] = p and pairings[p] = a, no
\* match means that a is not a key of pairings.
ResultAgreesWithState ==
    last.op = "report" =>
       /\ last.result # None =>
             /\ Paired(LastId, last.result.dev.device_id)
             /\ Paired(last.result.dev.device_id, LastId)
       /\ last.result = None => LastId \notin DOMAIN pairings

====
